---- MODULE Spec2Model ----
(***************************************************************************)
(* Feedback aggregation worker: the D1 tables (schema.sql), the database   *)
(* helpers (db.js), the FeedbackProcessingWorkflow and the two direct      *)
(* summarization services (processFeedbackBatch, summarizeSourceFeedback). *)
(* Every await on the store or on the text-generation binding is one       *)
(* atomic step; runs interleave freely between their steps.  Two runs can  *)
(* be in flight at a time (Slots, in order of dispatch); the run that      *)
(* returned last is kept, without its locals, at index Last until the next *)
(* dispatch.                                                               *)
(***************************************************************************)
EXTENDS Integers, Sequences, FiniteSets, TLC

\* ---------------------------------------------------------------- bounds
MaxRuns == 2        \* pipeline runs dispatched in one behaviour
MaxRecords == 2     \* rows the feedback table may hold
MaxTicks == 0       \* days the clock advances in one behaviour
MaxFaults == 1      \* store / text-generation calls that fail in one behaviour

\* ------------------------------------------------------------- constants
DaySeconds == 24 * 60 * 60
UnprocessedLimit == 100
Infinity == 2147483647

Slots == {1, 2}
Last == 0
Sources == {"discord"}
\* adapted item lists handed to the workflow (item = its content text)
ItemLists == {<<>>, <<"a">>, <<"a", "b">>}
DaysValues == {0, 1}

VARIABLES
    now,                \* Math.floor(Date.now() / 1000)
    feedback,           \* table feedback, row id = index
    source_summaries,   \* table source_summaries, row id = index
    runs,               \* the runs in flight (Slots), the last one returned (Last)
    dispatched,         \* pipeline runs started so far
    succeeded,          \* params of the workflow runs that completed
    faults,             \* failed collaborator calls so far
    aggregated_summaries,   \* table aggregated_summaries, row id = index
    agg,                \* the aggregation run in flight, or the last one
    aggDispatched,      \* aggregation runs started so far
    response,           \* the HTTP response returned and not read yet
    call                \* the last call of a function on its own: input, result

vars == <<now, feedback, source_summaries, runs, dispatched, succeeded, faults,
          aggregated_summaries, agg, aggDispatched, response, call>>

\* what the feedback pipelines leave alone
aggVars == <<aggregated_summaries, agg, aggDispatched, response, call>>

\* ------------------------------------------------------------ JS helpers
MathMin(S) == IF S = {} THEN Infinity ELSE CHOOSE m \in S : \A x \in S : m <= x
MathMax(S) == IF S = {} THEN -Infinity ELSE CHOOSE m \in S : \A x \in S : m >= x

Range(s) == {s[k] : k \in 1..Len(s)}

\* the text a summarization yields
AIResponse == [kind |-> "response", count |-> 0, error |-> ""]
FallbackSummary(n, msg) == [kind |-> "fallback", count |-> n, error |-> msg]
NoText == [kind |-> "none", count |-> 0, error |-> ""]
\* 'No feedback to summarize.', returned before ai.run is reached
NoFeedbackText == [kind |-> "fixed", count |-> 0, error |-> ""]

\* ------------------------------------------------------------- db.js
\* a result row of SELECT * FROM feedback
Row(fb, i) == [id |-> i, source |-> fb[i].source, content |-> fb[i].content,
               created_at |-> fb[i].created_at]

insertFeedback(fb, source, content, t, r) ==
    Append(fb, [source |-> source, content |-> content, created_at |-> t,
                processed |-> FALSE,
                insertedBy |-> r, flippedBy |-> 0, summariesAtFlip |-> 0])

\* the reload without its processed = 0 condition
selectAllByIds(fb, ids) ==
    {Row(fb, i) : i \in {j \in ids : j \in 1..Len(fb)}}

\* SELECT * FROM feedback WHERE id IN (ids) AND processed = 0
selectUnprocessedByIds(fb, ids) ==
    {Row(fb, i) : i \in {j \in ids : j \in 1..Len(fb) /\ ~fb[j].processed}}

\* position of row i in ORDER BY created_at ASC (rowid breaks ties)
Before(fb, j, i) ==
    \/ fb[j].created_at < fb[i].created_at
    \/ fb[j].created_at = fb[i].created_at /\ j < i

getUnprocessedFeedback(fb, source, limit) ==
    LET match == {i \in 1..Len(fb) : fb[i].source = source /\ ~fb[i].processed}
    IN {Row(fb, i) : i \in {j \in match :
            Cardinality({k \in match : Before(fb, k, j)}) < limit}}

\* an update that writes the negated flag instead of 1
markFeedbackToggled(fb, ids, r, nsum) ==
    [i \in 1..Len(fb) |->
        IF i \in ids
        THEN [fb[i] EXCEPT !.processed = ~fb[i].processed,
                  !.flippedBy = IF fb[i].processed THEN @ ELSE r,
                  !.summariesAtFlip = IF fb[i].processed THEN @ ELSE nsum]
        ELSE fb[i]]

\* UPDATE feedback SET processed = 1 WHERE id IN (ids)
markFeedbackProcessed(fb, ids, r, nsum) ==
    [i \in 1..Len(fb) |->
        IF i \in ids
        THEN [fb[i] EXCEPT !.processed = TRUE,
                  !.flippedBy = IF fb[i].processed THEN @ ELSE r,
                  !.summariesAtFlip = IF fb[i].processed THEN @ ELSE nsum]
        ELSE fb[i]]

\* what markFeedbackProcessed(db, feedbackIds) returns: nothing for an empty
\* list, else result.meta.changes, the number of rows the UPDATE matched
Number(n) == [type |-> "number", value |-> n]
Undefined == [type |-> "undefined", value |-> 0]

markFeedbackProcessedReturn(fb, ids) ==
    IF ids = {} THEN Undefined
    ELSE Number(Cardinality({i \in ids : i \in 1..Len(fb)}))

\* an insert that overwrites the summary the source already has
insertSourceSummaryReplacing(ss, source, summary, dateRangeStart, dateRangeEnd, feedbackCount, r, batch) ==
    LET row == [source |-> source, summary |-> summary,
                date_range_start |-> dateRangeStart,
                date_range_end |-> dateRangeEnd,
                feedback_count |-> feedbackCount,
                run |-> r, covers |-> {x.id : x \in batch}]
        old == {k \in 1..Len(ss) : ss[k].source = source}
    IN IF old = {} THEN Append(ss, row)
       ELSE [ss EXCEPT ![CHOOSE k \in old : TRUE] = row]

insertSourceSummary(ss, source, summary, dateRangeStart, dateRangeEnd, feedbackCount, r, batch) ==
    Append(ss, [source |-> source, summary |-> summary,
                date_range_start |-> dateRangeStart,
                date_range_end |-> dateRangeEnd,
                feedback_count |-> feedbackCount,
                run |-> r, covers |-> {row.id : row \in batch}])

\* ------------------------------------------------------------- runs
NewRun(id, kind, source, items, data, days, t) ==
    [id |-> id,
     kind |-> kind, source |-> source, feedbackItems |-> items,
     feedbackData |-> data,
     cutoffTime |-> t - (days * DaySeconds),
     pc |-> (CASE kind = "workflow" -> "store-feedback"
               [] kind = "batch" -> "select"
               [] OTHER -> "get-unprocessed"),
     status |-> "running", message |-> "",
     feedbackIds |-> <<>>, feedbackRecords |-> {}, summary |-> NoText,
     \* history
     alone |-> TRUE, faulted |-> FALSE, aiThrew |-> FALSE, failedStep |-> "",
     processedAtReload |-> {}, inputProcessed |-> FALSE, rerun |-> FALSE,
     selected |-> {}]

Idle == [NewRun(0, "none", "", <<>>, {}, 0, 0) EXCEPT !.status = "idle"]

Active(r) == r \in Slots /\ runs[r].status = "running"

\* the run of slot r returns or throws: its locals are gone, the run still in
\* flight moves to the first slot
Return(r, run) ==
    LET other == CHOOSE q \in Slots : q # r
    IN runs' = [q \in {Last} \union Slots |->
                 IF q = Last
                 THEN [run EXCEPT !.pc = "", !.cutoffTime = 0,
                                  !.feedbackRecords = {}, !.summary = NoText]
                 ELSE IF q = 1 THEN runs[other] ELSE Idle]

\* the Response a handler has returned and the caller has not read yet; the
\* fields after message record what the handler did
NoResponse ==
    [status |-> 0, message |-> "",
     route |-> "", source |-> "", extracted |-> -1, threw |-> "",
     cutoffTime |-> 0]

\* an aggregation run: AggregationWorkflow.run or aggregateSummaries
NullSummary == [kind |-> "null", count |-> 0, total |-> 0, error |-> ""]

NewAgg(kind, days) ==
    [kind |-> kind, days |-> days,
     id |-> 0,
     pc |-> "fetch-source-summaries", status |-> "running", message |-> "",
     summaries |-> {}, dateRange |-> [start |-> 0, end |-> 0],
     aggregatedSummary |-> NullSummary,
     \* history
     fetched |-> FALSE, fetchedAt |-> 0, tableSize |-> 0,
     aiCalled |-> FALSE, aiThrew |-> FALSE,
     storeThrew |-> FALSE, failedStep |-> ""]

NoAgg == [NewAgg("none", 0) EXCEPT !.status = "idle"]

NoCall == [fn |-> "", done |-> FALSE]

Init ==
    /\ now = 0
    /\ feedback = <<>>
    /\ source_summaries = <<>>
    /\ runs = [r \in {Last} \union Slots |-> Idle]
    /\ dispatched = 0
    /\ succeeded = {}
    /\ faults = 0
    /\ aggregated_summaries = <<>>
    /\ agg = NoAgg
    /\ aggDispatched = 0
    /\ response = NoResponse
    /\ call = NoCall

\* Math.floor(Date.now() / 1000): a reading t, never earlier than the last
Times == {k * DaySeconds : k \in 0..MaxTicks}

DateNow(t) ==
    /\ t >= now
    /\ now' = t

\* a run starts in the first slot that holds no run in flight; a run that
\* starts while another is in flight: neither executes alone
Dispatch(run) ==
    LET free == {r \in Slots : ~Active(r)}
        slot == CHOOSE r \in free : \A q \in free : r <= q
    IN /\ dispatched < MaxRuns
       /\ free # {}
       /\ dispatched' = dispatched + 1
       /\ runs' = [r \in {Last} \union Slots |->
                     IF r = slot THEN [run EXCEPT !.alone = (free = Slots)]
                     ELSE IF Active(r)
                          THEN [runs[r] EXCEPT !.alone = FALSE]
                          ELSE Idle]

\* env.FEEDBACK_WORKFLOW.run({params: {source, feedbackItems}})
DispatchWorkflow ==
    \E source \in Sources, items \in ItemLists :
        /\ Dispatch([NewRun(dispatched + 1, "workflow", source, items, {}, 0, 0) EXCEPT
               !.rerun = <<source, items>> \in succeeded])
        /\ UNCHANGED <<now, feedback, source_summaries, succeeded, faults>>
        /\ UNCHANGED aggVars

\* ---------------------------------------- FeedbackProcessingWorkflow.run
IsWf(r, step) ==
    /\ Active(r)
    /\ runs[r].kind = "workflow"
    /\ runs[r].pc = step

\* Step 1: one db.insertFeedback per loop iteration; the step returns after
\* the last one, and the run ends there when it was given no item
WfStoreFeedback(r) ==
    /\ IsWf(r, "store-feedback")
    /\ LET k == Len(runs[r].feedbackIds)
           n == Len(runs[r].feedbackItems)
       IN IF n = 0
          THEN /\ UNCHANGED <<now, feedback>>
               /\ Return(r, [runs[r] EXCEPT
                     !.status = "complete",
                     !.message = "No feedback items to process"])
          ELSE /\ Len(feedback) < MaxRecords
               /\ \E t \in Times :
                     /\ DateNow(t)
                     /\ feedback' = insertFeedback(feedback, runs[r].source,
                                 runs[r].feedbackItems[k + 1], t, runs[r].id)
               /\ runs' = [runs EXCEPT
                     ![r].feedbackIds = Append(@, Len(feedback) + 1),
                     ![r].pc = IF k + 1 = n
                               THEN "fetch-feedback-records" ELSE @]
    /\ UNCHANGED <<source_summaries, dispatched, succeeded, faults>>

\* the reload without its early exit on an empty result
WfFetchNoExit(r) ==
    /\ IsWf(r, "fetch-feedback-records")
    /\ LET ids == Range(runs[r].feedbackIds)
       IN runs' = [runs EXCEPT
             ![r].feedbackRecords = selectUnprocessedByIds(feedback, ids),
             ![r].processedAtReload = {i \in ids : feedback[i].processed},
             ![r].inputProcessed = \A i \in ids : feedback[i].processed,
             ![r].pc = "generate-summary"]
    /\ UNCHANGED <<now, feedback, source_summaries, dispatched, succeeded, faults>>

\* Step 2: reload by id, unprocessed only, then the early exit
WfFetchFeedbackRecords(r) ==
    /\ IsWf(r, "fetch-feedback-records")
    /\ LET ids == Range(runs[r].feedbackIds)
           rows == selectUnprocessedByIds(feedback, ids)
           run == [runs[r] EXCEPT
                     !.feedbackRecords = rows,
                     !.processedAtReload = {i \in ids : feedback[i].processed},
                     !.inputProcessed = \A i \in ids : feedback[i].processed]
       IN IF rows = {}
          THEN Return(r, [run EXCEPT
                  !.status = "complete",
                  !.message = "No unprocessed feedback found"])
          ELSE runs' = [runs EXCEPT
                  ![r] = [run EXCEPT !.pc = "generate-summary"]]
    /\ UNCHANGED <<now, feedback, source_summaries, dispatched, succeeded, faults>>

\* a generate-summary step after which the run goes straight to the mark step
WfGenerateSummaryThenMark(r) ==
    /\ IsWf(r, "generate-summary")
    /\ runs' = [runs EXCEPT ![r].summary = AIResponse,
                            ![r].pc = "mark-processed"]
    /\ UNCHANGED <<now, feedback, source_summaries, dispatched, succeeded, faults>>

\* Step 3: env.AI.run answers
WfGenerateSummary(r) ==
    /\ IsWf(r, "generate-summary")
    /\ runs' = [runs EXCEPT ![r].summary = AIResponse,
                            ![r].pc = "store-summary"]
    /\ UNCHANGED <<now, feedback, source_summaries, dispatched, succeeded, faults>>

\* a store-summary step that completes without its insert
WfStoreSummarySkipped(r) ==
    /\ IsWf(r, "store-summary")
    /\ runs' = [runs EXCEPT ![r].pc = "mark-processed"]
    /\ UNCHANGED <<now, feedback, source_summaries, dispatched, succeeded, faults>>

\* a store-summary step that counts the inserted ids, not the reloaded rows
WfStoreSummaryInsertedCount(r) ==
    /\ IsWf(r, "store-summary")
    /\ LET timestamps == {row.created_at : row \in runs[r].feedbackRecords}
       IN source_summaries' = insertSourceSummary(source_summaries,
              runs[r].source, runs[r].summary,
              MathMin(timestamps), MathMax(timestamps),
              Len(runs[r].feedbackIds), runs[r].id,
              runs[r].feedbackRecords)
    /\ runs' = [runs EXCEPT ![r].pc = "mark-processed"]
    /\ UNCHANGED <<now, feedback, dispatched, succeeded, faults>>

\* Step 4: date range of the reloaded batch, insert the summary
WfStoreSummary(r) ==
    /\ IsWf(r, "store-summary")
    /\ LET timestamps == {row.created_at : row \in runs[r].feedbackRecords}
       IN source_summaries' = insertSourceSummary(source_summaries,
              runs[r].source, runs[r].summary,
              MathMin(timestamps), MathMax(timestamps),
              Cardinality(runs[r].feedbackRecords), runs[r].id,
              runs[r].feedbackRecords)
    /\ runs' = [runs EXCEPT ![r].pc = "mark-processed"]
    /\ UNCHANGED <<now, feedback, dispatched, succeeded, faults>>

\* a mark step that binds only the first collected id
WfMarkFirstOnly(r) ==
    /\ IsWf(r, "mark-processed")
    /\ feedback' = markFeedbackProcessed(feedback, {Head(runs[r].feedbackIds)},
                                         runs[r].id, Len(source_summaries))
    /\ Return(r, [runs[r] EXCEPT !.status = "complete",
                                 !.message = "Processed"])
    /\ succeeded' = succeeded \union {<<runs[r].source, runs[r].feedbackItems>>}
    /\ UNCHANGED <<now, source_summaries, dispatched, faults>>

\* a mark step that flags every record of the run's source
WfMarkSource(r) ==
    /\ IsWf(r, "mark-processed")
    /\ feedback' = markFeedbackProcessed(feedback,
                      {i \in 1..Len(feedback) :
                          feedback[i].source = runs[r].source},
                      runs[r].id, Len(source_summaries))
    /\ Return(r, [runs[r] EXCEPT !.status = "complete",
                                 !.message = "Processed"])
    /\ succeeded' = succeeded \union {<<runs[r].source, runs[r].feedbackItems>>}
    /\ UNCHANGED <<now, source_summaries, dispatched, faults>>

\* Step 5: flag the ids the store step collected
WfMarkProcessed(r) ==
    /\ IsWf(r, "mark-processed")
    /\ feedback' = markFeedbackProcessed(feedback, Range(runs[r].feedbackIds),
                                         runs[r].id, Len(source_summaries))
    /\ Return(r, [runs[r] EXCEPT !.status = "complete",
                                 !.message = "Processed"])
    /\ succeeded' = succeeded \union {<<runs[r].source, runs[r].feedbackItems>>}
    /\ UNCHANGED <<now, source_summaries, dispatched, faults>>

\* the callback of the current step throws (a store call fails, or env.AI.run
\* throws and generate-summary rethrows).  The runner either retries the step,
\* which runs its callback again from the first line, or has no retry left
\* and fails the run.
WfStepThrows(r) ==
    /\ Active(r)
    /\ runs[r].kind = "workflow"
    /\ faults < MaxFaults
    /\ faults' = faults + 1
    /\ LET run == [runs[r] EXCEPT
                     !.faulted = TRUE,
                     !.aiThrew = @ \/ runs[r].pc = "generate-summary",
                     !.feedbackIds = IF runs[r].pc = "store-feedback"
                                     THEN <<>> ELSE @]
       IN \/ runs' = [runs EXCEPT ![r] = run]
          \/ Return(r, [run EXCEPT !.status = "errored",
                                   !.failedStep = runs[r].pc])
    /\ UNCHANGED <<now, feedback, source_summaries, dispatched, succeeded>>

WfStep(r) ==
    /\ \/ WfStoreFeedback(r)
       \/ WfFetchFeedbackRecords(r)
       \/ WfGenerateSummary(r)
       \/ WfStoreSummary(r)
       \/ WfMarkProcessed(r)
       \/ WfStepThrows(r)
    /\ UNCHANGED aggVars

\* ------------------------------------------------- processFeedbackBatch
\* processFeedbackBatch(env, source, feedbackData); feedbackData is empty or
\* names the rows one earlier run has stored so far
BatchInputs ==
    {{}} \union {{i \in 1..Len(feedback) : feedback[i].insertedBy = q} :
                    q \in 1..dispatched}

DispatchBatch ==
    \E source \in Sources, data \in BatchInputs :
        /\ Dispatch([NewRun(dispatched + 1, "batch", source, <<>>, data, 0, 0) EXCEPT
               !.inputProcessed = data # {} /\
                                  \A i \in data : feedback[i].processed])
        /\ UNCHANGED <<now, feedback, source_summaries, succeeded, faults>>
        /\ UNCHANGED aggVars

IsBatch(r, step) ==
    /\ Active(r)
    /\ runs[r].kind = "batch"
    /\ runs[r].pc = step

\* the empty-input return, else the reload by id and its empty return
BatchSelect(r) ==
    /\ IsBatch(r, "select")
    /\ LET ids == runs[r].feedbackData
           rows == selectUnprocessedByIds(feedback, ids)
           run == [runs[r] EXCEPT
                     !.feedbackRecords = rows,
                     !.processedAtReload = {i \in ids : feedback[i].processed}]
       IN IF rows = {}
          THEN Return(r, [run EXCEPT
                  !.status = "complete",
                  !.message = IF ids = {} THEN "No input"
                              ELSE "No unprocessed feedback found"])
          ELSE runs' = [runs EXCEPT
                  ![r] = [run EXCEPT !.pc = "store-summary"]]
    /\ UNCHANGED <<now, feedback, source_summaries, dispatched, succeeded, faults>>

\* generateSummary(ai, feedbackItems): the answer, or the fallback text when
\* ai.run throws
generateSummary(feedbackItems, throws) ==
    IF feedbackItems = {} THEN NoFeedbackText
    ELSE IF throws THEN FallbackSummary(Cardinality(feedbackItems), "ai")
    ELSE AIResponse

\* the text-generation call touches no table: it is taken together with the
\* insert that follows it
BatchStoreSummary(r) ==
    /\ IsBatch(r, "store-summary")
    /\ \E throws \in BOOLEAN :
          /\ throws => faults < MaxFaults
          /\ faults' = IF throws THEN faults + 1 ELSE faults
          /\ LET timestamps == {row.created_at : row \in runs[r].feedbackRecords}
             IN source_summaries' = insertSourceSummary(source_summaries,
                    runs[r].source,
                    generateSummary(runs[r].feedbackRecords, throws),
                    MathMin(timestamps), MathMax(timestamps),
                    Cardinality(runs[r].feedbackRecords), runs[r].id,
                    runs[r].feedbackRecords)
          /\ runs' = [runs EXCEPT ![r].aiThrew = throws,
                                  ![r].pc = "mark-processed"]
    /\ UNCHANGED <<now, feedback, dispatched, succeeded>>

\* marks every id of feedbackData
BatchMarkProcessed(r) ==
    /\ IsBatch(r, "mark-processed")
    /\ feedback' = markFeedbackProcessed(feedback, runs[r].feedbackData,
                                         runs[r].id, Len(source_summaries))
    /\ Return(r, [runs[r] EXCEPT !.status = "complete",
                                 !.message = "Processed"])
    /\ UNCHANGED <<now, source_summaries, dispatched, succeeded, faults>>

\* a store call throws: caught and logged, the function returns
BatchStoreThrows(r) ==
    /\ Active(r)
    /\ runs[r].kind = "batch"
    /\ runs[r].pc \in {"select", "store-summary", "mark-processed"}
    /\ runs[r].feedbackData # {}
    /\ faults < MaxFaults
    /\ faults' = faults + 1
    /\ Return(r, [runs[r] EXCEPT !.status = "complete",
                                 !.message = "Error",
                                 !.faulted = TRUE,
                                 !.failedStep = runs[r].pc])
    /\ UNCHANGED <<now, feedback, source_summaries, dispatched, succeeded>>

BatchStep(r) ==
    /\ \/ BatchSelect(r)
       \/ BatchStoreSummary(r)
       \/ BatchMarkProcessed(r)
       \/ BatchStoreThrows(r)
    /\ UNCHANGED aggVars

\* ---------------------------------------------- summarizeSourceFeedback
DispatchSummarize ==
    \E source \in Sources, days \in DaysValues, t \in Times :
        /\ DateNow(t)
        /\ Dispatch(NewRun(dispatched + 1, "summarize", source, <<>>, {}, days, t))
        /\ UNCHANGED <<feedback, source_summaries, succeeded, faults>>
        /\ UNCHANGED aggVars

IsSum(r, step) ==
    /\ Active(r)
    /\ runs[r].kind = "summarize"
    /\ runs[r].pc = step

\* unprocessed rows of the source, then the cutoff filter and both returns
\* (cutoffTime is not read again)
SumGetUnprocessed(r) ==
    /\ IsSum(r, "get-unprocessed")
    /\ LET feedbackItems == getUnprocessedFeedback(feedback, runs[r].source,
                                                   UnprocessedLimit)
           recentFeedback == {f \in feedbackItems :
                                 f.created_at >= runs[r].cutoffTime}
       IN IF recentFeedback = {}
          THEN Return(r, [runs[r] EXCEPT
                  !.status = "complete",
                  !.message = IF feedbackItems = {}
                              THEN "No unprocessed feedback"
                              ELSE "No recent feedback"])
          ELSE runs' = [runs EXCEPT
                  ![r].feedbackRecords = recentFeedback,
                  ![r].cutoffTime = 0,
                  ![r].pc = "store-summary"]
    /\ UNCHANGED <<now, feedback, source_summaries, dispatched, succeeded, faults>>

\* the text-generation call and the insert that follows it
SumStoreSummary(r) ==
    /\ IsSum(r, "store-summary")
    /\ \E throws \in BOOLEAN :
          /\ throws => faults < MaxFaults
          /\ faults' = IF throws THEN faults + 1 ELSE faults
          /\ LET timestamps == {row.created_at : row \in runs[r].feedbackRecords}
             IN source_summaries' = insertSourceSummary(source_summaries,
                    runs[r].source,
                    generateSummary(runs[r].feedbackRecords, throws),
                    MathMin(timestamps), MathMax(timestamps),
                    Cardinality(runs[r].feedbackRecords), runs[r].id,
                    runs[r].feedbackRecords)
          /\ runs' = [runs EXCEPT ![r].aiThrew = throws,
                                  ![r].pc = "mark-processed"]
    /\ UNCHANGED <<now, feedback, dispatched, succeeded>>

\* marks the ids of recentFeedback
SumMarkProcessed(r) ==
    /\ IsSum(r, "mark-processed")
    /\ feedback' = markFeedbackProcessed(feedback,
                       {f.id : f \in runs[r].feedbackRecords},
                       runs[r].id, Len(source_summaries))
    /\ Return(r, [runs[r] EXCEPT !.status = "complete",
                                 !.message = "Processed"])
    /\ UNCHANGED <<now, source_summaries, dispatched, succeeded, faults>>

\* a store call throws: the query's error reaches the caller, the later
\* ones are caught and reported in the result
SumStoreThrows(r) ==
    /\ Active(r)
    /\ runs[r].kind = "summarize"
    /\ runs[r].pc \in {"get-unprocessed", "store-summary", "mark-processed"}
    /\ faults < MaxFaults
    /\ faults' = faults + 1
    /\ Return(r, [runs[r] EXCEPT
          !.status = IF runs[r].pc = "get-unprocessed"
                     THEN "errored" ELSE "complete",
          !.message = "Error",
          !.faulted = TRUE,
          !.failedStep = runs[r].pc])
    /\ UNCHANGED <<now, feedback, source_summaries, dispatched, succeeded>>

SumStep(r) ==
    /\ \/ SumGetUnprocessed(r)
       \/ SumStoreSummary(r)
       \/ SumMarkProcessed(r)
       \/ SumStoreThrows(r)
    /\ UNCHANGED aggVars

Next ==
    \/ DispatchWorkflow
    \/ DispatchBatch
    \/ DispatchSummarize
    \/ \E r \in Slots : WfStep(r)
    \/ \E r \in Slots : BatchStep(r)
    \/ \E r \in Slots : SumStep(r)

Spec == Init /\ [][Next]_vars

\* ------------------------------------------------ steps that fail late
\* A store call whose write was applied can still reject (the answer is
\* lost); the step callback throws and the runner runs it again from its
\* first line.  In store-feedback the retried callback starts with an empty
\* feedbackIds and inserts every item again.
WfStoreFeedbackLost(r) ==
    /\ IsWf(r, "store-feedback")
    /\ Len(runs[r].feedbackIds) < Len(runs[r].feedbackItems)
    /\ Len(feedback) < MaxRecords
    /\ faults < MaxFaults
    /\ faults' = faults + 1
    /\ \E t \in Times :
          /\ DateNow(t)
          /\ feedback' = insertFeedback(feedback, runs[r].source,
                runs[r].feedbackItems[Len(runs[r].feedbackIds) + 1],
                t, runs[r].id)
    /\ runs' = [runs EXCEPT ![r].faulted = TRUE, ![r].feedbackIds = <<>>]
    /\ UNCHANGED <<source_summaries, dispatched, succeeded>>

\* in store-summary the retried callback inserts the summary again
WfStoreSummaryLost(r) ==
    /\ IsWf(r, "store-summary")
    /\ faults < MaxFaults
    /\ faults' = faults + 1
    /\ LET timestamps == {row.created_at : row \in runs[r].feedbackRecords}
       IN source_summaries' = insertSourceSummary(source_summaries,
              runs[r].source, runs[r].summary,
              MathMin(timestamps), MathMax(timestamps),
              Cardinality(runs[r].feedbackRecords), runs[r].id,
              runs[r].feedbackRecords)
    /\ runs' = [runs EXCEPT ![r].faulted = TRUE]
    /\ UNCHANGED <<now, feedback, dispatched, succeeded>>

WfStepLost(r) ==
    /\ \/ WfStoreFeedbackLost(r)
       \/ WfStoreSummaryLost(r)
    /\ UNCHANGED aggVars

\* workflow runs alone, with both kinds of step failure
RetryNext ==
    \/ DispatchWorkflow
    \/ \E r \in Slots : WfStep(r)
    \/ \E r \in Slots : WfStepLost(r)

RetrySpec == Init /\ [][RetryNext]_vars

\* the runtime keeps running the steps of every run in flight; a failure is
\* never obliged to happen
RetryFairSpec == RetrySpec /\ \A r \in Slots : WF_vars(WfStep(r))

\* ============================================================ aggregation
MaxSummaries == 2   \* rows the source_summaries table may hold (AggSpec)
MaxAggRuns == 2     \* aggregation runs dispatched in one behaviour

AggSources == {"discord", "github"}
AggDays == {-1, 0, 7}
AggKinds == {"workflow", "service"}
\* clock readings: a first day and the day after
AggTimes == {0, DaySeconds}

\* a result row of SELECT * FROM source_summaries
SummaryRow(ss, k) ==
    [id |-> k, source |-> ss[k].source, summary |-> ss[k].summary,
     date_range_start |-> ss[k].date_range_start,
     date_range_end |-> ss[k].date_range_end,
     feedback_count |-> ss[k].feedback_count]

\* a window query that keeps every summary overlapping the window
getSourceSummariesOverlapping(ss, dateRangeStart, dateRangeEnd) ==
    {SummaryRow(ss, k) : k \in {j \in 1..Len(ss) :
        /\ ss[j].date_range_end >= dateRangeStart
        /\ ss[j].date_range_start <= dateRangeEnd}}

\* a query without its WHERE clause
getSourceSummariesUnbounded(ss, dateRangeStart, dateRangeEnd) ==
    {SummaryRow(ss, k) : k \in 1..Len(ss)}

\* SELECT * FROM source_summaries
\*   WHERE date_range_start >= ? AND date_range_end <= ?
getSourceSummaries(ss, dateRangeStart, dateRangeEnd) ==
    {SummaryRow(ss, k) : k \in {j \in 1..Len(ss) :
        /\ ss[j].date_range_start >= dateRangeStart
        /\ ss[j].date_range_end <= dateRangeEnd}}

\* summaries.reduce((sum, s) => sum + s.feedback_count, 0)
RECURSIVE totalFeedbackCount(_)
totalFeedbackCount(summaries) ==
    IF summaries = {} THEN 0
    ELSE LET s == CHOOSE x \in summaries : TRUE
         IN s.feedback_count + totalFeedbackCount(summaries \ {s})

\* new Set(summaries.map(s => s.source)).size
sourceCount(summaries) == Cardinality({s.source : s \in summaries})

\* the text an aggregation yields
AggResponse == [kind |-> "response", count |-> 0, total |-> 0, error |-> ""]
AggFallback(n, total, msg) == [kind |-> "fallback", count |-> n, total |-> total, error |-> msg]

\* an insert that skips a row the table already holds for the same window
insertAggregatedSummaryOnce(tbl, summary, dateRangeStart, dateRangeEnd, nSources, total, i) ==
    IF \E k \in 1..Len(tbl) : /\ tbl[k].date_range_start = dateRangeStart
                              /\ tbl[k].date_range_end = dateRangeEnd
    THEN tbl
    ELSE Append(tbl, [summary |-> summary,
                      date_range_start |-> dateRangeStart,
                      date_range_end |-> dateRangeEnd,
                      source_count |-> nSources,
                      total_feedback_count |-> total,
                      run |-> i])

insertAggregatedSummary(tbl, summary, dateRangeStart, dateRangeEnd, nSources, total, i) ==
    Append(tbl, [summary |-> summary,
                 date_range_start |-> dateRangeStart,
                 date_range_end |-> dateRangeEnd,
                 source_count |-> nSources,
                 total_feedback_count |-> total,
                 run |-> i])

IsAgg(step) ==
    /\ agg.status = "running"
    /\ agg.pc = step

\* a feedback processing run that executes alone and without a failing
\* step, taken as one step: one record stored at t1, or two at t1 < t2, then
\* their summary stored and the records flagged
SoloPipelineRun ==
    \E source \in AggSources, items \in ItemLists \ {<<>>}, t1 \in AggTimes, t2 \in AggTimes :
        /\ Len(source_summaries) < MaxSummaries
        /\ t1 >= now
        /\ t2 >= t1
        /\ Len(items) = 1 <=> t2 = t1
        /\ now' = t2
        /\ LET fb1 == insertFeedback(feedback, source, items[1], t1, 0)
               fb2 == IF Len(items) = 2
                      THEN insertFeedback(fb1, source, items[2], t2, 0)
                      ELSE fb1
               ids == (Len(feedback) + 1)..Len(fb2)
               rows == selectUnprocessedByIds(fb2, ids)
               timestamps == {row.created_at : row \in rows}
           IN /\ source_summaries' = insertSourceSummary(source_summaries,
                     source, AIResponse,
                     MathMin(timestamps), MathMax(timestamps),
                     Cardinality(rows), 0, rows)
              /\ feedback' = markFeedbackProcessed(fb2, ids, 0,
                                 Len(source_summaries) + 1)
        /\ UNCHANGED <<runs, dispatched, succeeded, faults,
                       aggregated_summaries, agg, aggDispatched, response, call>>

\* env.AGGREGATION_WORKFLOW.run({params: {days}}) or aggregateSummaries(env, days);
\* aggregation runs share nothing but the table they append to: they are
\* taken one after the other, and the last one is kept
DispatchAggregation ==
    \E kind \in AggKinds, days \in AggDays :
        /\ agg.status # "running"
        /\ aggDispatched < MaxAggRuns
        /\ aggDispatched' = aggDispatched + 1
        /\ agg' = [NewAgg(kind, days) EXCEPT !.id = aggDispatched + 1]
        /\ UNCHANGED <<now, feedback, source_summaries, runs, dispatched,
                       succeeded, faults, aggregated_summaries, response, call>>

\* the run ends: return value or thrown error
AggReturn(run, status, message) ==
    agg' = [run EXCEPT !.status = status, !.message = message]

\* the runner retries the step that threw, or has no retry left and fails
\* the run; aggregateSummaries catches and reports the error
AggThrows(run) ==
    IF run.kind = "workflow"
    THEN \/ agg' = run
         \/ AggReturn([run EXCEPT !.failedStep = run.pc], "errored", "")
    ELSE AggReturn([run EXCEPT !.failedStep = run.pc], "complete", "Error")

\* a fetch step without the return on an empty result
AggFetchNoExit ==
    /\ IsAgg("fetch-source-summaries")
    /\ \E t \in AggTimes :
          /\ DateNow(t)
          /\ LET startTime == t - (agg.days * DaySeconds)
                 summaries == getSourceSummaries(source_summaries, startTime, t)
                 run == [agg EXCEPT
                            !.summaries = summaries,
                            !.dateRange = [start |-> startTime, end |-> t],
                            !.fetched = TRUE, !.fetchedAt = t,
                            !.tableSize = Len(source_summaries)]
             IN agg' = [run EXCEPT !.pc = "generate-aggregated-summary"]
    /\ UNCHANGED <<feedback, source_summaries, runs, dispatched, succeeded,
                   faults, aggregated_summaries, aggDispatched, response, call>>

\* fetch-source-summaries: the window from the clock reading, the query, and
\* the return on an empty result
AggFetchSourceSummaries ==
    /\ IsAgg("fetch-source-summaries")
    /\ \E t \in AggTimes :
          /\ DateNow(t)
          /\ LET startTime == t - (agg.days * DaySeconds)
                 summaries == getSourceSummaries(source_summaries, startTime, t)
                 run == [agg EXCEPT
                            !.summaries = summaries,
                            !.dateRange = [start |-> startTime, end |-> t],
                            !.fetched = TRUE, !.fetchedAt = t,
                            !.tableSize = Len(source_summaries)]
             IN IF summaries = {}
                THEN AggReturn(run, "complete", "No source summaries found")
                ELSE agg' = [run EXCEPT !.pc = "generate-aggregated-summary"]
    /\ UNCHANGED <<feedback, source_summaries, runs, dispatched, succeeded,
                   faults, aggregated_summaries, aggDispatched, response, call>>

\* generate-aggregated-summary: the model answers, or it throws: the
\* workflow step rethrows, generateAggregatedSummary returns the fallback
AggGenerateSummary ==
    /\ IsAgg("generate-aggregated-summary")
    /\ \E throws \in BOOLEAN :
          /\ throws => faults < MaxFaults
          /\ faults' = IF throws THEN faults + 1 ELSE faults
          /\ LET run == [agg EXCEPT !.aiCalled = TRUE,
                                        !.aiThrew = @ \/ throws]
             IN IF throws /\ run.kind = "workflow"
                THEN AggThrows(run)
                ELSE agg' = [run EXCEPT
                        !.aggregatedSummary =
                            IF throws
                            THEN AggFallback(Cardinality(run.summaries),
                                     totalFeedbackCount(run.summaries), "ai")
                            ELSE AggResponse,
                        !.pc = "store-aggregated-summary"]
    /\ UNCHANGED <<now, feedback, source_summaries, runs, dispatched,
                   succeeded, aggregated_summaries, aggDispatched, response, call>>

\* a store step that takes the window from the clock when it runs
AggStoreRecomputedWindow ==
    /\ IsAgg("store-aggregated-summary")
    /\ \E t \in AggTimes :
          /\ DateNow(t)
          /\ aggregated_summaries' = insertAggregatedSummary(
                aggregated_summaries, agg.aggregatedSummary,
                t - (agg.days * DaySeconds), t,
                sourceCount(agg.summaries),
                totalFeedbackCount(agg.summaries), agg.id)
    /\ AggReturn(agg, "complete", "Aggregated summary generated successfully")
    /\ UNCHANGED <<feedback, source_summaries, runs, dispatched, succeeded,
                   faults, aggDispatched, response, call>>

\* store-aggregated-summary: totals of the fetched summaries, the window of
\* the fetch, one insert, then the return
AggStoreSummary ==
    /\ IsAgg("store-aggregated-summary")
    /\ aggregated_summaries' = insertAggregatedSummary(
          aggregated_summaries, agg.aggregatedSummary,
          agg.dateRange.start, agg.dateRange.end,
          sourceCount(agg.summaries),
          totalFeedbackCount(agg.summaries), agg.id)
    /\ AggReturn(agg, "complete", "Aggregated summary generated successfully")
    /\ UNCHANGED <<now, feedback, source_summaries, runs, dispatched, succeeded,
                   faults, aggDispatched, response, call>>

\* the query or the insert fails
AggStoreThrows ==
    /\ agg.status = "running"
    /\ agg.pc \in {"fetch-source-summaries", "store-aggregated-summary"}
    /\ faults < MaxFaults
    /\ faults' = faults + 1
    /\ AggThrows([agg EXCEPT !.storeThrew = TRUE])
    /\ UNCHANGED <<now, feedback, source_summaries, runs, dispatched,
                   succeeded, aggregated_summaries, aggDispatched, response, call>>

AggNext ==
    \/ SoloPipelineRun
    \/ DispatchAggregation
    \/ AggFetchSourceSummaries
    \/ AggGenerateSummary
    \/ AggStoreSummary
    \/ AggStoreThrows

AggSpec == Init /\ [][AggNext]_vars

\* ------------------------------------------------------ scheduled trigger
CronDays == 7

\* a trigger without the try/catch around the dispatch
HandleCronTriggerUncaught ==
    \E runFails \in BOOLEAN :
        /\ agg.status # "running"
        /\ aggDispatched < MaxAggRuns
        /\ call' = [fn |-> "scheduled", done |-> TRUE, runFailed |-> runFails,
                    threw |-> runFails,
                    runId |-> IF runFails THEN 0 ELSE aggDispatched + 1]
        /\ IF runFails
           THEN UNCHANGED <<agg, aggDispatched>>
           ELSE /\ aggDispatched' = aggDispatched + 1
                /\ agg' = [NewAgg("workflow", CronDays) EXCEPT !.id = aggDispatched + 1]
        /\ UNCHANGED <<now, feedback, source_summaries, runs, dispatched,
                       succeeded, faults, aggregated_summaries, response>>

\* scheduled -> ctx.waitUntil(handleCronTrigger(env)): the dispatch with
\* days 7 inside try/catch; a rejected run() is logged and nothing is thrown
HandleCronTrigger ==
    \E runFails \in BOOLEAN :
        /\ agg.status # "running"
        /\ aggDispatched < MaxAggRuns
        /\ call' = [fn |-> "scheduled", done |-> TRUE, runFailed |-> runFails,
                    threw |-> FALSE,
                    runId |-> IF runFails THEN 0 ELSE aggDispatched + 1]
        /\ IF runFails
           THEN UNCHANGED <<agg, aggDispatched>>
           ELSE /\ aggDispatched' = aggDispatched + 1
                /\ agg' = [NewAgg("workflow", CronDays) EXCEPT !.id = aggDispatched + 1]
        /\ UNCHANGED <<now, feedback, source_summaries, runs, dispatched,
                       succeeded, faults, aggregated_summaries, response>>

CronNext ==
    \/ SoloPipelineRun
    \/ HandleCronTrigger
    \/ AggFetchSourceSummaries
    \/ AggGenerateSummary
    \/ AggStoreSummary
    \/ AggStoreThrows

CronSpec == Init /\ [][CronNext]_vars

\* ================================================================= routes
Methods == {"POST", "GET"}
\* url.pathname.split('/webhook/')[1]
WebhookSources == {"", "Discord"}
\* ----------------------------------------------------------- webhooks.js
\* A JS string is the sequence of its pieces, each piece a non-empty string;
\* '' is <<>>. Absent stands for undefined (a property the payload lacks).
Absent == <<"">>
Truthy(v) == v # Absent /\ v # <<>>
\* v || w
Or(v, w) == IF Truthy(v) THEN v ELSE w

Whitespace == {" ", "\n", "\n\n"}

RECURSIVE trimStart(_)
trimStart(str) ==
    IF str # <<>> /\ Head(str) \in Whitespace THEN trimStart(Tail(str)) ELSE str

RECURSIVE trimEnd(_)
trimEnd(str) ==
    IF str # <<>> /\ str[Len(str)] \in Whitespace
    THEN trimEnd(SubSeq(str, 1, Len(str) - 1)) ELSE str

trim(str) == trimEnd(trimStart(str))

\* a parsed request body: json tells what JSON value it is ("malformed" when
\* it is none), str is the value of a JSON string, the other fields are the
\* properties the adapters read (a sub-object is present or not)
EmptyObject ==
    [json |-> "object", str |-> <<>>,
     content |-> Absent, embeds |-> "absent",
     tweet |-> FALSE, tweetText |-> Absent, text |-> Absent,
     issue |-> FALSE, comment |-> FALSE, discussion |-> FALSE,
     subject |-> Absent, body |-> Absent, title |-> Absent,
     ticket |-> FALSE, post |-> FALSE]

\* request bodies: not JSON, the JSON value null, or a Discord message object
\* (with or without content, with or without an embeds array)
Payloads ==
    {[EmptyObject EXCEPT !.json = j] : j \in {"malformed", "null"}}
    \union {EmptyObject}
    \union {[EmptyObject EXCEPT !.content = <<"a">>, !.embeds = e] :
               e \in {"absent", "empty"}}

toLowerCase(str) ==
    CASE str = "Discord" -> "discord"
      [] str = "GitHub" -> "github"
      [] OTHER -> str

NamedParsers == {"github", "discord", "twitter", "email", "support", "forum"}

\* parsers[key] on the object literal: an own property, a property inherited
\* from Object.prototype, or undefined
ParserLookup(key) ==
    CASE key \in NamedParsers -> key
      [] key = "constructor" -> "Object"
      [] key = "__proto__" -> "Object.prototype"
      [] OTHER -> "undefined"

Item(content, raw) == [content |-> content, raw |-> raw]

\* the issue is {number: 1, title: 't'}, the comment {body: 'c'}, the
\* discussion {title: 't'}
parseGitHubWebhook(payload) ==
    (IF payload.issue
     THEN <<Item(<<"Issue #", "1", ": ", "t", "\n\n">>, FALSE)>> ELSE <<>>)
    \o (IF payload.comment /\ payload.issue
        THEN <<Item(<<"Comment on Issue #", "1", ": ", "c">>, FALSE)>> ELSE <<>>)
    \o (IF payload.discussion
        THEN <<Item(<<"Discussion: ", "t", "\n\n">>, FALSE)>> ELSE <<>>)

\* one item when the message has content or an embeds array (an empty array
\* is truthy), with the embed text appended and the whole trimmed; the one
\* embed is {description: 'e'}
parseDiscordWebhook(payload) ==
    IF Truthy(payload.content) \/ payload.embeds # "absent"
    THEN LET content == Or(payload.content, <<>>)
             withEmbeds == IF payload.embeds = "e"
                           THEN content \o <<"\n\n">> \o <<"e", "\n">>
                           ELSE content
         IN <<Item(trim(withEmbeds), FALSE)>>
    ELSE <<>>

\* payload.tweet is {text: tweetText}
parseTwitterWebhook(payload) ==
    (IF payload.tweet
     THEN <<Item(Or(payload.tweetText, <<>>), FALSE)>> ELSE <<>>)
    \o (IF Truthy(payload.text) THEN <<Item(payload.text, FALSE)>> ELSE <<>>)

parseEmailWebhook(payload) ==
    IF Truthy(payload.subject) \/ Truthy(payload.body) \/ Truthy(payload.text)
    THEN <<Item(<<"Subject: ">> \o Or(payload.subject, <<"No Subject">>)
                \o <<"\n\n">> \o Or(payload.body, Or(payload.text, <<>>)), FALSE)>>
    ELSE <<>>

\* payload.ticket is {id: 1, subject: 's'}
parseSupportTicketWebhook(payload) ==
    IF payload.ticket
    THEN <<Item(<<"Ticket #", "1", ": ", "s", "\n\n">>, FALSE)>>
    ELSE IF Truthy(payload.subject) \/ Truthy(payload.content)
    THEN <<Item(<<"Subject: ">> \o Or(payload.subject, <<"No Subject">>)
                \o <<"\n\n">> \o Or(payload.content, Or(payload.body, <<>>)), FALSE)>>
    ELSE <<>>

\* payload.post is {title: 'p'}
parseForumWebhook(payload) ==
    IF payload.post
    THEN <<Item(<<"Post: ", "p", "\n\n">>, FALSE)>>
    ELSE IF Truthy(payload.title) \/ Truthy(payload.content)
    THEN <<Item(<<"Post: ">> \o Or(payload.title, <<"No Title">>)
                \o <<"\n\n">> \o Or(payload.content, Or(payload.body, Or(payload.text, <<>>))), FALSE)>>
    ELSE <<>>

\* typeof payload === 'string' ? payload : JSON.stringify(payload)
PayloadText(payload) ==
    CASE payload.json = "string" -> payload.str
      [] payload.json = "null" -> <<"null">>
      [] OTHER -> <<"{...}">>

Returns(items) == [kind |-> "items", items |-> items]
\* a TypeError
Throws == [kind |-> "throws", items |-> <<>>]
\* Object(payload): a value that is no list of items
ObjectOf == [kind |-> "object", items |-> <<>>]

\* the parser of the lower-cased source, or the generic one-item fallback when
\* the lookup is falsy; a named parser reads a property of the payload first
\* and throws on null
parseWebhook(source, payload) ==
    LET parser == ParserLookup(toLowerCase(source))
    IN IF parser = "undefined"
       THEN Returns(<<Item(PayloadText(payload), TRUE)>>)
       ELSE IF parser = "Object.prototype" THEN Throws
       ELSE IF parser = "Object" THEN ObjectOf
       ELSE IF payload.json = "null" THEN Throws
       ELSE Returns(CASE parser = "github" -> parseGitHubWebhook(payload)
                      [] parser = "discord" -> parseDiscordWebhook(payload)
                      [] parser = "twitter" -> parseTwitterWebhook(payload)
                      [] parser = "email" -> parseEmailWebhook(payload)
                      [] parser = "support" -> parseSupportTicketWebhook(payload)
                      [] OTHER -> parseForumWebhook(payload))

\* --------------------------------------------------------- handleWebhook
\* feedbackItems.length === 0, and feedbackItems.map, on what the parser
\* returned: Object('') has length 0, any other Object(payload) here has
\* no map
ExtractedNothing(source, payload) ==
    LET feedbackItems == parseWebhook(source, payload)
    IN \/ feedbackItems.kind = "items" /\ Len(feedbackItems.items) = 0
       \/ feedbackItems.kind = "object" /\ payload.json = "string" /\ payload.str = <<>>

ParseFails(source, payload) ==
    LET feedbackItems == parseWebhook(source, payload)
    IN \/ feedbackItems.kind = "throws"
       \/ feedbackItems.kind = "object" /\ ~ExtractedNothing(source, payload)

\* a handler without the return on an empty item list
WebhookOutcomeNoEmptyCheck(method, source, payload, runFails) ==
    IF method # "POST" THEN "method"
    ELSE IF source = "" THEN "source"
    ELSE IF payload.json = "malformed" THEN "json"
    ELSE IF ParseFails(source, payload) THEN "parse"
    ELSE IF runFails THEN "run"
    ELSE "dispatch"

\* a handler without the check of the source segment
WebhookOutcomeNoSourceCheck(method, source, payload, runFails) ==
    IF method # "POST" THEN "method"
    ELSE IF payload.json = "malformed" THEN "json"
    ELSE IF ParseFails(source, payload) THEN "parse"
    ELSE IF ExtractedNothing(source, payload) THEN "empty"
    ELSE IF runFails THEN "run"
    ELSE "dispatch"

\* the branch handleWebhook leaves by: request.json() rejects on a body that
\* is not JSON, a named parser throws on null, run() may reject
WebhookOutcome(method, source, payload, runFails) ==
    IF method # "POST" THEN "method"
    ELSE IF source = "" THEN "source"
    ELSE IF payload.json = "malformed" THEN "json"
    ELSE IF ParseFails(source, payload) THEN "parse"
    ELSE IF ExtractedNothing(source, payload) THEN "empty"
    ELSE IF runFails THEN "run"
    ELSE "dispatch"

WebhookStatus(outcome) ==
    CASE outcome = "method" -> 405
      [] outcome = "source" -> 400
      [] outcome \in {"json", "parse", "run"} -> 500
      [] OTHER -> 200

WebhookMessage(outcome) ==
    CASE outcome = "method" -> "Method not allowed"
      [] outcome = "source" -> "Source required"
      [] outcome = "json" -> "Unexpected token"
      [] outcome = "parse" -> "Cannot read properties of null"
      [] outcome = "run" -> "workflow run failed"
      [] outcome = "empty" -> "No feedback items extracted"
      [] OTHER -> "Processing feedback items via workflow"

\* POST /webhook/:source
HandleWebhook ==
    \E method \in Methods, source \in WebhookSources, payload \in Payloads, runFails \in BOOLEAN :
        LET outcome == WebhookOutcome(method, source, payload, runFails)
            parsed == outcome \in {"empty", "run", "dispatch"}
            items == IF parsed THEN parseWebhook(source, payload).items ELSE <<>>
            feedbackItems == [k \in 1..Len(items) |-> items[k].content]
            reply == [NoResponse EXCEPT
                        !.route = "webhook",
                        !.source = source,
                        !.extracted = IF parsed THEN Len(feedbackItems) ELSE -1,
                        !.threw = IF outcome \in {"json", "parse", "run"}
                                  THEN outcome ELSE "",
                        !.status = WebhookStatus(outcome),
                        !.message = WebhookMessage(outcome)]
        IN /\ response = NoResponse
           /\ IF outcome = "dispatch"
              THEN /\ Dispatch([NewRun(dispatched + 1, "workflow", source,
                                       feedbackItems, {}, 0, 0) EXCEPT
                         !.rerun = <<source, feedbackItems>> \in succeeded])
                   /\ response' = reply
              ELSE /\ UNCHANGED <<runs, dispatched>>
                   /\ response' = reply
           /\ UNCHANGED <<now, feedback, source_summaries, succeeded, faults,
                          aggregated_summaries, agg, aggDispatched, call>>

\* recentFeedback.map(item => ({content, metadata})), in the order of the
\* query result
RecentContents(fb, rows) ==
    [k \in 1..Cardinality(rows) |->
        (CHOOSE f \in rows :
            Cardinality({g \in rows : Before(fb, g.id, f.id)}) = k - 1).content]

\* POST /api/summarize/:source
ApiSummarize ==
    \E source \in WebhookSources \ {""}, days \in DaysValues, t \in Times \union {now}, runFails \in BOOLEAN :
        LET cutoffTime == t - (days * DaySeconds)
            feedbackItems == getUnprocessedFeedback(feedback, source, UnprocessedLimit)
            recentFeedback == {f \in feedbackItems : f.created_at >= cutoffTime}
            items == RecentContents(feedback, recentFeedback)
            reply == [NoResponse EXCEPT
                        !.route = "summarize",
                        !.source = source,
                        !.cutoffTime = cutoffTime,
                        !.status = 200]
        IN /\ response = NoResponse
           /\ DateNow(t)
           /\ IF recentFeedback = {}
              THEN /\ UNCHANGED <<runs, dispatched>>
                   /\ response' = [reply EXCEPT
                         !.message = "No unprocessed feedback for source"]
              ELSE IF runFails
              THEN /\ UNCHANGED <<runs, dispatched>>
                   /\ response' = [reply EXCEPT
                         !.status = 500, !.threw = "run",
                         !.message = "workflow run failed"]
              ELSE /\ Dispatch([NewRun(dispatched + 1, "workflow", source,
                                       items, {}, 0, 0) EXCEPT
                         !.rerun = <<source, items>> \in succeeded,
                         !.selected = {f.id : f \in recentFeedback}])
                   /\ response' = [reply EXCEPT
                         !.message = "Summarization workflow started for source"]
           /\ UNCHANGED <<feedback, source_summaries, succeeded, faults,
                          aggregated_summaries, agg, aggDispatched, call>>

\* the caller reads the Response
ReadResponse ==
    /\ response # NoResponse
    /\ response' = NoResponse
    /\ UNCHANGED <<now, feedback, source_summaries, runs, dispatched, succeeded,
                   faults, aggregated_summaries, agg, aggDispatched, call>>

\* a handler runs to its return before anything else happens
ApiNext ==
    \/ HandleWebhook
    \/ ApiSummarize
    \/ ReadResponse
    \/ response = NoResponse /\ \E r \in Slots : WfStep(r)

ApiSpec == Init /\ [][ApiNext]_vars

\* the webhook route alone
WebhookNext ==
    \/ HandleWebhook
    \/ ReadResponse
    \/ response = NoResponse /\ \E r \in Slots : WfStep(r)

WebhookSpec == Init /\ [][WebhookNext]_vars

\* ------------------------------------------------ a long feedback table
MaxOld == 101       \* rows older than every window (LimitSpec)
MaxNew == 1         \* rows created at the time of the request (LimitSpec)

\* a row as a webhook run leaves it when it fails after its store step
StoredRow(source, t, processed) ==
    [source |-> source, content |-> "a", created_at |-> t,
     processed |-> processed,
     insertedBy |-> 0, flippedBy |-> 0, summariesAtFlip |-> 0]

\* the table holds nOld rows of day 0, all processed or all unprocessed,
\* followed by nNew unprocessed rows of day 2; the clock reads day 2
LimitInit ==
    \E nOld \in 0..MaxOld, nNew \in 0..MaxNew, oldProcessed \in BOOLEAN :
        /\ now = 2 * DaySeconds
        /\ feedback = [i \in 1..(nOld + nNew) |->
                         IF i <= nOld
                         THEN StoredRow("Discord", 0, oldProcessed)
                         ELSE StoredRow("Discord", 2 * DaySeconds, FALSE)]
        /\ source_summaries = <<>>
        /\ runs = [r \in {Last} \union Slots |-> Idle]
        /\ dispatched = 0
        /\ succeeded = {}
        /\ faults = 0
        /\ aggregated_summaries = <<>>
        /\ agg = NoAgg
        /\ aggDispatched = 0
        /\ response = NoResponse
        /\ call = NoCall

LimitNext ==
    \/ ApiSummarize
    \/ ReadResponse

LimitSpec == LimitInit /\ [][LimitNext]_vars

\* ------------------------------------------- functions called on their own
AdapterSources ==
    {"", "discord", "Discord", "GitHub", "github", "twitter", "email", "support",
     "forum", "other", "discordx", "constructor", "__proto__"}

AdapterPayloads ==
    {[EmptyObject EXCEPT !.json = "null"],
     [EmptyObject EXCEPT !.json = "string"],
     [EmptyObject EXCEPT !.json = "string", !.str = <<"s">>],
     EmptyObject,
     [EmptyObject EXCEPT !.content = <<"a">>],
     [EmptyObject EXCEPT !.content = <<" ">>],
     [EmptyObject EXCEPT !.content = <<"a">>, !.embeds = "e"],
     [EmptyObject EXCEPT !.embeds = "e"],
     [EmptyObject EXCEPT !.embeds = "empty"],
     [EmptyObject EXCEPT !.tweet = TRUE],
     [EmptyObject EXCEPT !.tweet = TRUE, !.tweetText = <<"t">>],
     [EmptyObject EXCEPT !.text = <<"x">>],
     [EmptyObject EXCEPT !.issue = TRUE],
     [EmptyObject EXCEPT !.issue = TRUE, !.comment = TRUE],
     [EmptyObject EXCEPT !.comment = TRUE],
     [EmptyObject EXCEPT !.discussion = TRUE],
     [EmptyObject EXCEPT !.subject = <<"s">>],
     [EmptyObject EXCEPT !.body = <<"b">>],
     [EmptyObject EXCEPT !.ticket = TRUE],
     [EmptyObject EXCEPT !.post = TRUE],
     [EmptyObject EXCEPT !.title = <<"t">>]}

\* what env.AI.run resolved to: an object with or without a response
\* property, a string, or null
AIResults ==
    {[type |-> "object", response |-> r, str |-> <<>>] :
        r \in {Absent, <<>>, <<"summary">>}}
    \union {[type |-> "string", response |-> Absent, str |-> str] :
        str \in {<<>>, <<"summary">>}}
    \union {[type |-> "null", response |-> Absent, str |-> <<>>]}

\* JSON.stringify(response)
Stringify(aiResponse) ==
    CASE aiResponse.type = "null" -> <<"null">>
      [] aiResponse.type = "string" -> <<"\"">> \o aiResponse.str \o <<"\"">>
      [] aiResponse.response = Absent -> <<"{}">>
      [] OTHER -> <<"{\"response\":\"">> \o aiResponse.response \o <<"\"}">>

Text(str) == [kind |-> "text", text |-> str]
TypeError == [kind |-> "throws", text |-> <<>>]

\* the lines after env.AI.run: reading a property of null throws, a string
\* has no response property
extractSummary(aiResponse) ==
    IF aiResponse.type = "null" THEN TypeError
    ELSE IF aiResponse.type = "object" /\ Truthy(aiResponse.response)
    THEN Text(aiResponse.response)
    ELSE IF aiResponse.type = "string" THEN Text(aiResponse.str)
    ELSE Text(Stringify(aiResponse))

ExtractSummaryCalls ==
    {[fn |-> "extractSummary", done |-> FALSE, response |-> r,
      result |-> TypeError] : r \in AIResults}

\* tables of at most two rows, and id lists over them and one id no row has
CallTables ==
    {<<>>}
    \union {<<StoredRow("Discord", 0, p)>> : p \in BOOLEAN}
    \union {<<StoredRow("Discord", 0, p), StoredRow("Discord", 0, q)>> :
               p \in BOOLEAN, q \in BOOLEAN}

MarkFeedbackProcessedCalls ==
    {[fn |-> "markFeedbackProcessed", done |-> FALSE, ids |-> ids,
      before |-> <<>>, result |-> Undefined] : ids \in SUBSET (1..3)}

ParseWebhookCalls ==
    {[fn |-> "parseWebhook", done |-> FALSE, source |-> source,
      payload |-> payload, result |-> Throws] :
        source \in AdapterSources, payload \in AdapterPayloads}

CallInputs ==
    ParseWebhookCalls \union ExtractSummaryCalls \union MarkFeedbackProcessedCalls

\* one function is about to be called; the store is empty unless the
\* function writes to it
CallInit ==
    /\ call \in CallInputs
    /\ now = 0
    /\ feedback \in (IF call.fn = "markFeedbackProcessed" THEN CallTables ELSE {<<>>})
    /\ source_summaries = <<>>
    /\ runs = [r \in {Last} \union Slots |-> Idle]
    /\ dispatched = 0
    /\ succeeded = {}
    /\ faults = 0
    /\ aggregated_summaries = <<>>
    /\ agg = NoAgg
    /\ aggDispatched = 0
    /\ response = NoResponse

ParseWebhookCall ==
    /\ call.fn = "parseWebhook"
    /\ ~call.done
    /\ call' = [call EXCEPT !.done = TRUE,
                            !.result = parseWebhook(call.source, call.payload)]
    /\ UNCHANGED <<now, feedback, source_summaries, runs, dispatched, succeeded,
                   faults, aggregated_summaries, agg, aggDispatched, response>>

ExtractSummaryCall ==
    /\ call.fn = "extractSummary"
    /\ ~call.done
    /\ call' = [call EXCEPT !.done = TRUE,
                            !.result = extractSummary(call.response)]
    /\ UNCHANGED <<now, feedback, source_summaries, runs, dispatched, succeeded,
                   faults, aggregated_summaries, agg, aggDispatched, response>>

MarkFeedbackProcessedCall ==
    /\ call.fn = "markFeedbackProcessed"
    /\ ~call.done
    /\ feedback' = markFeedbackProcessed(feedback, call.ids, 0, 0)
    /\ call' = [call EXCEPT !.done = TRUE,
                            !.before = feedback,
                            !.result = markFeedbackProcessedReturn(feedback, call.ids)]
    /\ UNCHANGED <<now, source_summaries, runs, dispatched, succeeded,
                   faults, aggregated_summaries, agg, aggDispatched, response>>

CallNext ==
    \/ ParseWebhookCall
    \/ ExtractSummaryCall
    \/ MarkFeedbackProcessedCall

CallSpec == CallInit /\ [][CallNext]_vars

\* ------------------------------------- the two aggregations side by side
\* aggregateSummaries(env, days = 7) and AggregationWorkflow.run with
\* {days = 7} = event.params, each computed from its own source over the same
\* tables, clock reading, days and answer of env.AI.run
ServiceDefaultDays == 7
WorkflowDefaultDays == 7

\* the days argument: a number, or not given
DaysArgs ==
    {[given |-> TRUE, value |-> d] : d \in AggDays}
    \union {[given |-> FALSE, value |-> 0]}

NoSummariesText == [kind |-> "fixed", text |-> <<"No source summaries available to aggregate.">>]

\* generateAggregatedSummary(ai, sourceSummaries): the fixed text for no
\* summaries, the unwrapped answer, or the fallback text when a line of the
\* try block throws
generateAggregatedSummary(aiResponse, sourceSummaries) ==
    IF sourceSummaries = {} THEN NoSummariesText
    ELSE IF aiResponse.type = "null"
    THEN AggFallback(Cardinality(sourceSummaries),
                     totalFeedbackCount(sourceSummaries), "TypeError")
    ELSE IF aiResponse.type = "object" /\ Truthy(aiResponse.response)
    THEN Text(aiResponse.response)
    ELSE IF aiResponse.type = "string" THEN Text(aiResponse.str)
    ELSE Text(Stringify(aiResponse))

\* the aggregated_summaries table after aggregateSummaries(env, days)
aggregateSummaries(ss, tbl, t, days, aiResponse) ==
    LET d == IF days.given THEN days.value ELSE ServiceDefaultDays
        startTime == t - (d * DaySeconds)
        sourceSummaries == getSourceSummaries(ss, startTime, t)
        aggregatedSummary == generateAggregatedSummary(aiResponse, sourceSummaries)
    IN IF sourceSummaries = {} THEN tbl
       ELSE insertAggregatedSummary(tbl, aggregatedSummary, startTime, t,
                Cardinality({x.source : x \in sourceSummaries}),
                totalFeedbackCount(sourceSummaries), 0)

\* the callback of generate-aggregated-summary: the unwrapped answer, or the
\* error it rethrows
generateAggregatedSummaryStep(aiResponse) ==
    IF aiResponse.type = "null" THEN TypeError
    ELSE IF aiResponse.type = "object" /\ Truthy(aiResponse.response)
    THEN Text(aiResponse.response)
    ELSE IF aiResponse.type = "string" THEN Text(aiResponse.str)
    ELSE Text(Stringify(aiResponse))

\* a workflow run that counts the fetched rows as its sources
AggregationWorkflowRunCountsRows(ss, tbl, t, days, aiResponse) ==
    LET d == IF days.given THEN days.value ELSE WorkflowDefaultDays
        startTime == t - (d * DaySeconds)
        summaries == getSourceSummaries(ss, startTime, t)
        aggregatedSummary == generateAggregatedSummaryStep(aiResponse)
    IN IF summaries = {} THEN tbl
       ELSE IF aggregatedSummary = TypeError THEN tbl
       ELSE insertAggregatedSummary(tbl, aggregatedSummary, startTime, t,
                Cardinality(summaries),
                totalFeedbackCount(summaries), 0)

\* the aggregated_summaries table after AggregationWorkflow.run: the three
\* steps in order; a generate step that throws on this answer throws on
\* every retry and the run stores nothing
AggregationWorkflowRun(ss, tbl, t, days, aiResponse) ==
    LET d == IF days.given THEN days.value ELSE WorkflowDefaultDays
        startTime == t - (d * DaySeconds)
        sourceSummaries ==
            [summaries |-> getSourceSummaries(ss, startTime, t),
             dateRange |-> [start |-> startTime, end |-> t]]
        aggregatedSummary == generateAggregatedSummaryStep(aiResponse)
    IN IF sourceSummaries.summaries = {} THEN tbl
       ELSE IF aggregatedSummary = TypeError THEN tbl
       ELSE insertAggregatedSummary(tbl, aggregatedSummary,
                sourceSummaries.dateRange.start, sourceSummaries.dateRange.end,
                sourceCount(sourceSummaries.summaries),
                totalFeedbackCount(sourceSummaries.summaries), 0)

\* both are run on the tables as they stand, at one clock reading
AggregateBoth ==
    \E t \in AggTimes, days \in DaysArgs, aiResponse \in AIResults :
        /\ t >= now
        /\ call' = [fn |-> "aggregate", done |-> TRUE,
                    t |-> t, days |-> days, response |-> aiResponse,
                    service |-> aggregateSummaries(source_summaries,
                                   aggregated_summaries, t, days, aiResponse),
                    workflow |-> AggregationWorkflowRun(source_summaries,
                                   aggregated_summaries, t, days, aiResponse)]
        /\ UNCHANGED <<now, feedback, source_summaries, runs, dispatched,
                       succeeded, faults, aggregated_summaries, agg,
                       aggDispatched, response>>

EquivNext ==
    \/ SoloPipelineRun
    \/ AggregateBoth

EquivSpec == Init /\ [][EquivNext]_vars

\* ------------------------------------------- every path to the summarizer
\* One path at a time, from the point where its input is fixed: a feedback
\* run over records that other runs may have flagged already, an
\* aggregation over a table of source summaries, or one of the two
\* summarizers called on its own.
SummarizerTables ==
    UNION {[1..n -> {StoredRow("discord", 0, p) : p \in BOOLEAN}] :
              n \in 0..MaxRecords}

StoredSummary(t) ==
    [source |-> "discord", summary |-> AIResponse,
     date_range_start |-> t, date_range_end |-> t,
     feedback_count |-> 1, run |-> 0, covers |-> {}]

SummarizerSummaries ==
    UNION {[1..m -> {StoredSummary(t) : t \in AggTimes}] : m \in 0..MaxSummaries}

\* the run in flight: a workflow run about to store no item or about to
\* reload the ids it stored, processFeedbackBatch over the rows of the
\* table, summarizeSourceFeedback
StartRuns(fb) ==
    {IF fb = <<>>
     THEN NewRun(1, "workflow", "discord", <<>>, {}, 0, 0)
     ELSE [NewRun(1, "workflow", "discord", [i \in 1..Len(fb) |-> "a"], {}, 0, 0)
             EXCEPT !.feedbackIds = [i \in 1..Len(fb) |-> i],
                    !.pc = "fetch-feedback-records"]}
    \union {[NewRun(1, "batch", "discord", <<>>, 1..Len(fb), 0, 0) EXCEPT
                !.inputProcessed = fb # <<>> /\
                                   \A i \in 1..Len(fb) : fb[i].processed]}
    \union {NewRun(1, "summarize", "discord", <<>>, {}, days, 0) :
                days \in DaysValues}

SummarizerCalls(fb, ss) ==
    {[fn |-> "generateSummary", done |-> FALSE, throws |-> throws,
      input |-> {Row(fb, i) : i \in ids}, result |-> NoText] :
        throws \in BOOLEAN, ids \in SUBSET (1..Len(fb))}
    \union
    {[fn |-> "generateAggregatedSummary", done |-> FALSE, response |-> r,
      input |-> {SummaryRow(ss, k) : k \in ks}, result |-> NoText] :
        r \in AIResults, ks \in SUBSET (1..Len(ss))}

SummarizerInit ==
    /\ now = 0
    /\ feedback \in SummarizerTables
    /\ source_summaries \in SummarizerSummaries
    /\ succeeded = {}
    /\ faults = 0
    /\ aggregated_summaries = <<>>
    /\ response = NoResponse
    /\ \/ /\ source_summaries = <<>>
          /\ \E run \in StartRuns(feedback) :
                runs = [r \in {Last} \union Slots |->
                          IF r = 1 THEN run ELSE Idle]
          /\ dispatched = 1
          /\ agg = NoAgg
          /\ aggDispatched = 0
          /\ call = NoCall
       \/ /\ feedback = <<>>
          /\ runs = [r \in {Last} \union Slots |-> Idle]
          /\ dispatched = 0
          /\ \E kind \in AggKinds, days \in AggDays :
                agg = [NewAgg(kind, days) EXCEPT !.id = 1]
          /\ aggDispatched = 1
          /\ call = NoCall
       \/ /\ runs = [r \in {Last} \union Slots |-> Idle]
          /\ dispatched = 0
          /\ agg = NoAgg
          /\ aggDispatched = 0
          /\ call \in SummarizerCalls(feedback, source_summaries)

GenerateSummaryCall ==
    /\ call.fn = "generateSummary"
    /\ ~call.done
    /\ call' = [call EXCEPT !.done = TRUE,
                            !.result = generateSummary(call.input, call.throws)]
    /\ UNCHANGED <<now, feedback, source_summaries, runs, dispatched, succeeded,
                   faults, aggregated_summaries, agg, aggDispatched, response>>

GenerateAggregatedSummaryCall ==
    /\ call.fn = "generateAggregatedSummary"
    /\ ~call.done
    /\ call' = [call EXCEPT !.done = TRUE,
                    !.result = generateAggregatedSummary(call.response, call.input)]
    /\ UNCHANGED <<now, feedback, source_summaries, runs, dispatched, succeeded,
                   faults, aggregated_summaries, agg, aggDispatched, response>>

SummarizerNext ==
    \/ \E r \in Slots : WfStep(r)
    \/ \E r \in Slots : BatchStep(r)
    \/ \E r \in Slots : SumStep(r)
    \/ AggFetchSourceSummaries
    \/ AggGenerateSummary
    \/ AggStoreSummary
    \/ AggStoreThrows
    \/ GenerateSummaryCall
    \/ GenerateAggregatedSummaryCall

SummarizerSpec == SummarizerInit /\ [][SummarizerNext]_vars

\* ================================================================ claims
\* r ranges over the slots that hold a run
Ids == 1..Len(feedback)
RunIds == {r \in {Last} \union Slots : runs[r].status # "idle"}
SummaryIds == 1..Len(source_summaries)
SummariesOf(r) == {k \in SummaryIds : source_summaries[k].run = runs[r].id}
FlippedBy(r) == {i \in Ids : feedback[i].flippedBy = runs[r].id}
InsertedBy(r) == {i \in Ids : feedback[i].insertedBy = runs[r].id}
Finished(r) == runs[r].status \in {"complete", "errored"}
Succeeded(r) == runs[r].status = "complete" /\ runs[r].message = "Processed"

\* C1: every processed record is covered by a source summary that was in the
\* table before the record's flag was set, and a run that failed in its
\* summarize or persist-summary step has flipped no flag.
C1_SummaryStoredBeforeFlag ==
    /\ \A i \in Ids : feedback[i].processed =>
          \E k \in 1..feedback[i].summariesAtFlip :
              i \in source_summaries[k].covers
    /\ \A r \in RunIds :
          runs[r].failedStep \in {"generate-summary", "store-summary"}
              => FlippedBy(r) = {}

C1_Witness ==
    /\ \E i \in Ids : feedback[i].processed
    /\ \E r \in RunIds :
          /\ runs[r].kind = "workflow"
          /\ runs[r].failedStep \in {"generate-summary", "store-summary"}
          /\ InsertedBy(r) # {}

\* C2 (as claimed): no feedback record is covered by more than one source
\* summary, whatever the interleaving of the runs.
C2_NoRecordSummarizedTwice ==
    \A i \in Ids :
        Cardinality({k \in SummaryIds : i \in source_summaries[k].covers}) <= 1

\* C3 (as claimed): a workflow run whose text-generation call threw still
\* ends successfully, with a stored summary carrying the fallback text and
\* with all its records processed.
C3_FallbackOnAIFailure ==
    \A r \in RunIds :
        (runs[r].kind = "workflow" /\ runs[r].aiThrew /\ Finished(r)) =>
            /\ Succeeded(r)
            /\ \E k \in SummariesOf(r) :
                  source_summaries[k].summary.kind = "fallback"
            /\ \A i \in Range(runs[r].feedbackIds) : feedback[i].processed

\* C4: a record is inserted with processed = false, and a record whose flag
\* is true keeps it in every later state.
C4_ProcessedMonotone ==
    [][/\ Len(feedback') >= Len(feedback)
       /\ \A i \in 1..Len(feedback') :
             IF i \in Ids
             THEN feedback[i].processed => feedback'[i].processed
             ELSE ~feedback'[i].processed]_vars

C4_Witness ==
    \E r \in RunIds :
        /\ Succeeded(r)
        /\ runs[r].processedAtReload # {}
        /\ \A i \in runs[r].processedAtReload : feedback[i].processed

\* C5: a run whose record ids were all inserted and all processed when it
\* reloaded them creates no source summary and flips no flag.
C5_ProcessedInputIsNoOp ==
    \A r \in RunIds :
        runs[r].inputProcessed => SummariesOf(r) = {} /\ FlippedBy(r) = {}

C5_Witness ==
    \E r \in RunIds :
        /\ runs[r].kind = "batch"
        /\ runs[r].inputProcessed
        /\ Finished(r)

\* C6 (as claimed): a workflow run dispatched with the source and items of a
\* run that already completed creates no source summary.
C6_RerunCreatesNoSummary ==
    \A r \in RunIds : runs[r].rerun => SummariesOf(r) = {}

\* C7: a workflow run over n >= 1 items that ran alone and without a failing
\* step ends with n new records, all processed, and one new source summary
\* whose feedback_count is n.
C7_SoloRunOutcome ==
    \A r \in RunIds :
        (/\ runs[r].kind = "workflow"
         /\ Len(runs[r].feedbackItems) >= 1
         /\ runs[r].alone
         /\ ~runs[r].faulted
         /\ Finished(r)) =>
            /\ Succeeded(r)
            /\ Cardinality(InsertedBy(r)) = Len(runs[r].feedbackItems)
            /\ \A i \in InsertedBy(r) : feedback[i].processed
            /\ Cardinality(SummariesOf(r)) = 1
            /\ \A k \in SummariesOf(r) :
                  source_summaries[k].feedback_count
                      = Len(runs[r].feedbackItems)

C7_Witness ==
    \E r \in RunIds :
        /\ runs[r].kind = "workflow"
        /\ Len(runs[r].feedbackItems) = 2
        /\ runs[r].alone
        /\ ~runs[r].faulted
        /\ Finished(r)

\* C8 (as claimed): the feedback_count of the summary a successful run stored
\* is the number of records in its date range whose flag that run flipped.
C8_CountEqualsFlipped ==
    \A r \in RunIds : Succeeded(r) =>
        \A k \in SummariesOf(r) :
            source_summaries[k].feedback_count =
                Cardinality({i \in FlippedBy(r) :
                    /\ feedback[i].created_at
                           >= source_summaries[k].date_range_start
                    /\ feedback[i].created_at
                           <= source_summaries[k].date_range_end})

\* C9: every stored source summary has date_range_start <= date_range_end
\* and feedback_count >= 1.
C9_SummaryNeverEmpty ==
    \A k \in SummaryIds :
        /\ source_summaries[k].feedback_count >= 1
        /\ source_summaries[k].date_range_start
               <= source_summaries[k].date_range_end

C9_Witness ==
    /\ source_summaries # <<>>
    /\ \E r \in RunIds :
          /\ runs[r].kind = "workflow"
          /\ runs[r].status = "complete"
          /\ runs[r].message = "No unprocessed feedback found"

\* C10: the summary a workflow or batch run inserts has the minimum and the
\* maximum created_at of the rows that were unprocessed when the run reloaded
\* its ids, and their number as feedback_count.
ReloadedIds(r) ==
    (IF runs[r].kind = "workflow"
     THEN Range(runs[r].feedbackIds) ELSE runs[r].feedbackData)
        \ runs[r].processedAtReload

AggFinished == agg.status \in {"complete", "errored"}
AggSucceeded ==
    /\ agg.status = "complete"
    /\ agg.message = "Aggregated summary generated successfully"
AggIds == 1..Len(aggregated_summaries)
AggRows == {k \in AggIds : aggregated_summaries[k].run = agg.id}
\* the stored summaries inside the window of the run, as the table stood
\* when the run queried it
InWindow ==
    {k \in 1..agg.tableSize :
        /\ source_summaries[k].date_range_start >= agg.dateRange.start
        /\ source_summaries[k].date_range_end <= agg.dateRange.end}

RECURSIVE SumOfCounts(_)
SumOfCounts(ks) ==
    IF ks = {} THEN 0
    ELSE LET k == CHOOSE x \in ks : TRUE
         IN source_summaries[k].feedback_count + SumOfCounts(ks \ {k})

\* C11 (as claimed): an aggregation run whose text-generation call threw,
\* and whose store calls all succeeded, does not fail: it ends successfully
\* and has persisted exactly one aggregated summary.
C11_AggregationSurvivesAIFailure ==
    (agg.aiThrew /\ ~agg.storeThrew /\ AggFinished) =>
        /\ AggSucceeded
        /\ Cardinality(AggRows) = 1

\* C12: the aggregated summary a run persists has source_count = the number
\* of distinct sources among the summaries inside the window it queried,
\* total_feedback_count = the sum of their feedback_count, and as date range
\* the window of the fetch step's clock reading, [t - days * 86400, t].
C12_AggregatedRowDescribesWindow ==
    \A k \in AggRows :
        /\ aggregated_summaries[k].source_count =
              Cardinality({source_summaries[j].source : j \in InWindow})
        /\ aggregated_summaries[k].total_feedback_count = SumOfCounts(InWindow)
        /\ aggregated_summaries[k].date_range_end = agg.fetchedAt
        /\ aggregated_summaries[k].date_range_start =
              agg.fetchedAt - (agg.days * DaySeconds)

C12_Witness ==
    \E k \in AggRows :
        /\ aggregated_summaries[k].source_count = 2
        /\ aggregated_summaries[k].total_feedback_count = 3
        /\ agg.kind = "workflow"

\* C13: the window query returns exactly the stored summaries with
\* date_range_start >= start and date_range_end <= end; a summary that
\* starts before the window or ends after it is not returned.
C13_WindowContainment ==
    agg.fetched =>
        /\ \A s \in agg.summaries :
              /\ s.date_range_start >= agg.dateRange.start
              /\ s.date_range_end <= agg.dateRange.end
        /\ {s.id : s \in agg.summaries} = InWindow

C13_Witness ==
    /\ agg.fetched
    /\ agg.summaries # {}
    /\ \E j \in 1..agg.tableSize :
          /\ source_summaries[j].date_range_start < agg.dateRange.start
          /\ source_summaries[j].date_range_end >= agg.dateRange.start
          /\ j \notin {s.id : s \in agg.summaries}

\* C14: a run whose window query returned no summary has ended successfully
\* with a null summary, has not called the text generation and has inserted
\* no aggregated summary.
C14_EmptyWindowEndsRun ==
    (agg.fetched /\ agg.summaries = {}) =>
        /\ agg.status = "complete"
        /\ agg.message = "No source summaries found"
        /\ agg.aggregatedSummary = NullSummary
        /\ ~agg.aiCalled
        /\ AggRows = {}

C14_Witness ==
    /\ agg.fetched
    /\ agg.summaries = {}
    /\ source_summaries # <<>>
    /\ agg.kind = "workflow"

\* C15: a step of an aggregation run leaves every feedback record and every
\* source summary as it was and keeps the aggregated summaries already
\* stored; it appends one aggregated summary exactly when the run ends
\* successfully over a non-empty input, so k such runs append k rows.
C15_AggregationOnlyAppends ==
    [][/\ (agg' # agg) =>
             /\ feedback' = feedback
             /\ source_summaries' = source_summaries
       /\ Len(aggregated_summaries') = Len(aggregated_summaries) +
             (IF /\ agg.status = "running"
                 /\ agg'.status = "complete"
                 /\ agg'.message = "Aggregated summary generated successfully"
              THEN 1 ELSE 0)
       /\ \A k \in AggIds : aggregated_summaries'[k] = aggregated_summaries[k]]_vars

C15_Witness ==
    /\ Len(aggregated_summaries) = 2
    /\ aggregated_summaries[1].date_range_start = aggregated_summaries[2].date_range_start
    /\ aggregated_summaries[1].date_range_end = aggregated_summaries[2].date_range_end
    /\ aggregated_summaries[1].total_feedback_count = aggregated_summaries[2].total_feedback_count
    /\ \E i \in 1..Len(feedback) : feedback[i].processed

\* C16: no step deletes a feedback record, a source summary or an aggregated
\* summary, and no step changes a stored row, except that a feedback
\* record's processed flag may change.
C16_AppendOnlyTables ==
    [][/\ Len(feedback') >= Len(feedback)
       /\ \A i \in 1..Len(feedback) :
             /\ feedback'[i].source = feedback[i].source
             /\ feedback'[i].content = feedback[i].content
             /\ feedback'[i].created_at = feedback[i].created_at
       /\ Len(source_summaries') >= Len(source_summaries)
       /\ \A k \in 1..Len(source_summaries) :
             source_summaries'[k] = source_summaries[k]
       /\ Len(aggregated_summaries') >= Len(aggregated_summaries)
       /\ \A k \in 1..Len(aggregated_summaries) :
             aggregated_summaries'[k] = aggregated_summaries[k]]_vars

C16_Witness ==
    /\ Len(feedback) >= 2
    /\ Len(source_summaries) >= 2
    /\ \E i \in 1..Len(feedback) : feedback[i].processed
    /\ \E i \in 1..Len(feedback) : ~feedback[i].processed

\* ------------------------------------------------------ route claims
\* the step answers a request
Answers == response = NoResponse /\ response' # NoResponse
StoreUnchanged ==
    /\ feedback' = feedback
    /\ source_summaries' = source_summaries
    /\ aggregated_summaries' = aggregated_summaries
NothingDispatched == dispatched' = dispatched /\ runs' = runs

\* C17: when POST /api/summarize/{source} selected a non-empty set of
\* unprocessed records and the run it dispatched has completed successfully,
\* every selected record is processed.
C17_SummarizeProcessesSelection ==
    \A r \in RunIds :
        (runs[r].selected # {} /\ Succeeded(r))
        => \A i \in runs[r].selected : feedback[i].processed

\* C19: a webhook request whose adapter yields no item is answered with
\* status 200, starts no pipeline run and leaves every table as it was.
C19_EmptyWebhookIsNoOp ==
    [][(Answers /\ response'.route = "webhook" /\ response'.extracted = 0)
       => /\ response'.status = 200
          /\ NothingDispatched
          /\ StoreUnchanged]_vars

C19_Witness ==
    /\ response.route = "webhook"
    /\ response.extracted = 0
    /\ response.message = "No feedback items extracted"
    /\ Len(feedback) > 0
    /\ \E r \in Slots : Active(r)

\* C20: a webhook request whose body is not JSON or whose dispatch fails is
\* answered with status 500 and the error text, one without a source
\* segment with a 4xx status, and none of them writes a record or a
\* summary or starts a run.
C20_WebhookFailuresWriteNothing ==
    [][(Answers /\ response'.route = "webhook")
       => /\ response'.threw \in {"json", "run"}
             => /\ response'.status = 500
                /\ response'.message # ""
                /\ NothingDispatched
                /\ StoreUnchanged
          /\ response'.source = ""
             => /\ response'.status \in 400..499
                /\ NothingDispatched
                /\ StoreUnchanged]_vars

C20_Witness ==
    /\ response.route = "webhook"
    /\ response.threw = "run"
    /\ response.status = 500
    /\ Len(feedback) > 0

\* C18: POST /api/summarize/{source} answers with the no-op only when the
\* table holds no unprocessed record of the source created inside the
\* window, however many older unprocessed records of the source it holds.
C18_NoOpOnlyWithoutWindowRecords ==
    [][(/\ Answers
        /\ response'.route = "summarize"
        /\ response'.message = "No unprocessed feedback for source")
       => ~\E i \in 1..Len(feedback) :
              /\ feedback[i].source = response'.source
              /\ ~feedback[i].processed
              /\ feedback[i].created_at >= response'.cutoffTime]_vars

\* ------------------------------------------------- function claims
Called(fn) == call.fn = fn /\ call.done

\* C21: for a source that is none of the six adapter names in any letter
\* case, parseWebhook does not throw and returns exactly one item, with
\* metadata {raw: true} and the payload as text for content.
C21_UnknownSourceYieldsOneRawItem ==
    (Called("parseWebhook") /\ toLowerCase(call.source) \notin NamedParsers)
    => call.result = Returns(<<Item(PayloadText(call.payload), TRUE)>>)

\* C22: when a named adapter returns at least one item, every item it
\* returns has non-empty content.
C22_AdaptedItemsHaveContent ==
    (/\ Called("parseWebhook")
     /\ toLowerCase(call.source) \in NamedParsers
     /\ call.result.kind = "items")
    => \A k \in 1..Len(call.result.items) : call.result.items[k].content # <<>>

\* the rows whose flag the call turned from 0 to 1
FlippedByCall ==
    {i \in 1..Len(feedback) : feedback[i].processed /\ ~call.before[i].processed}

\* C23: markFeedbackProcessed returns the number of rows whose flag it
\* flipped; with an empty id list it leaves the table as it was and
\* returns 0.
C23_MarkReturnsFlippedCount ==
    Called("markFeedbackProcessed")
    => /\ call.result = Number(Cardinality(FlippedByCall))
       /\ call.ids = {} => feedback = call.before

\* C25: the summary text is the response property of the result when it has
\* one (an empty string included), else the result itself when it is text,
\* else the serialization of the result.
C25_ResponseUnwrapping ==
    Called("extractSummary")
    => call.result =
          Text(IF call.response.type = "object" /\ call.response.response # Absent
               THEN call.response.response
               ELSE IF call.response.type = "string" THEN call.response.str
               ELSE Stringify(call.response))

\* C24: the scheduled trigger starts an aggregation run with days = 7; when
\* the dispatch fails nothing is started and no error leaves the handler.
C24_CronDispatchesSevenDays ==
    [][(call' # call /\ call'.fn = "scheduled")
       => /\ ~call'.threw
          /\ IF call'.runFailed
             THEN agg' = agg /\ aggDispatched' = aggDispatched
             ELSE /\ aggDispatched' = aggDispatched + 1
                  /\ agg'.status = "running"
                  /\ agg'.kind = "workflow"
                  /\ agg'.days = 7]_vars

C24_Witness ==
    /\ call.fn = "scheduled"
    /\ call.runFailed
    /\ agg.id = 1
    /\ AggSucceeded
    /\ agg.dateRange.start = agg.dateRange.end - (7 * DaySeconds)
    /\ Len(aggregated_summaries) = 1

\* C30: whatever days an aggregation run was given, zero and negative
\* included, every stored aggregated summary has date_range_start <=
\* date_range_end and 1 <= source_count <= total_feedback_count.
C30_AggregatedRowsWellFormed ==
    \A k \in AggIds :
        /\ aggregated_summaries[k].date_range_start
              <= aggregated_summaries[k].date_range_end
        /\ 1 <= aggregated_summaries[k].source_count
        /\ aggregated_summaries[k].source_count
              <= aggregated_summaries[k].total_feedback_count

C30_Witness ==
    /\ agg.days < 0
    /\ agg.fetched
    /\ AggFinished
    /\ Len(source_summaries) > 0
    /\ \E k \in AggIds :
          aggregated_summaries[k].date_range_start
              = aggregated_summaries[k].date_range_end

\* ------------------------------------------------ workflow run claims
\* the steps of FeedbackProcessingWorkflow.run in the order of the source
WfSteps ==
    <<"store-feedback", "fetch-feedback-records", "generate-summary",
      "store-summary", "mark-processed">>

StepIndex(pc) == CHOOSE i \in 1..Len(WfSteps) : WfSteps[i] = pc

\* what one step does to the workflow run of slot r, wherever the run is
\* afterwards: it stays at its step or moves to the next one, it fails, or it
\* returns from the step its message belongs to
WfRunAdvances(r) ==
    \A q \in {Last} \union Slots :
        runs'[q].id = runs[r].id =>
            \/ /\ runs'[q].status = "running"
               /\ StepIndex(runs'[q].pc) - StepIndex(runs[r].pc) \in {0, 1}
            \/ runs'[q].status = "errored"
            \/ /\ runs'[q].status = "complete"
               /\ runs'[q].message = "No feedback items to process"
                     => runs[r].pc = "store-feedback"
               /\ runs'[q].message = "No unprocessed feedback found"
                     => runs[r].pc = "fetch-feedback-records"
               /\ runs'[q].message = "Processed"
                     => runs[r].pc = "mark-processed"

WfEarlyExitsWriteNothing ==
    \A r \in RunIds :
        (runs[r].kind = "workflow" /\ runs[r].status = "complete") =>
            /\ runs[r].feedbackItems = <<>>
                  <=> runs[r].message = "No feedback items to process"
            /\ runs[r].message = "No feedback items to process"
                  => /\ InsertedBy(r) = {}
                     /\ SummariesOf(r) = {}
                     /\ FlippedBy(r) = {}
            /\ runs[r].message = "No unprocessed feedback found"
                  => /\ SummariesOf(r) = {}
                     /\ FlippedBy(r) = {}
            /\ runs[r].message = "Processed"
                  => SummariesOf(r) # {}

\* C26: a workflow run given no item returns "No feedback items to process"
\* from the store step, with no record, no summary and no flag of its own; a
\* run whose reload is empty returns "No unprocessed feedback found" from the
\* fetch step, with no summary and no flag of its own; any other run that
\* does not fail goes through store-feedback, fetch-feedback-records,
\* generate-summary, store-summary and mark-processed one after the other,
\* never skipping a step and never going back, and returns from the last.
C26_StepsInOrder ==
    /\ []WfEarlyExitsWriteNothing
    /\ [][\A r \in Slots :
             (Active(r) /\ runs[r].kind = "workflow") => WfRunAdvances(r)]_vars

C26_Witness ==
    \E r \in RunIds :
        /\ runs[r].kind = "workflow"
        /\ Succeeded(r)
        /\ runs[r].faulted
        /\ FlippedBy(r) # {}
        /\ SummariesOf(r) # {}

\* C27: the mark step flags the ids the store step collected, not the rows
\* the reload returned.  Whatever the interleaving, every record whose flag a
\* run turned from 0 to 1 is covered by a source summary that same run
\* stored, and when a workflow run stands at its mark step every collected id
\* that its reload did not return is already processed.
C27_MarkFlipsOnlyCovered ==
    /\ \A i \in Ids :
          feedback[i].flippedBy # 0 =>
              \E k \in SummaryIds :
                  /\ source_summaries[k].run = feedback[i].flippedBy
                  /\ i \in source_summaries[k].covers
    /\ \A r \in Slots :
          IsWf(r, "mark-processed") =>
              \A i \in Range(runs[r].feedbackIds) :
                  i \notin {row.id : row \in runs[r].feedbackRecords}
                      => feedback[i].processed

\* a run at its mark step whose reload missed a collected id, and a record
\* a workflow run has flipped
C27_Witness ==
    /\ \E r \in Slots :
          /\ IsWf(r, "mark-processed")
          /\ \E i \in Range(runs[r].feedbackIds) :
                i \notin {row.id : row \in runs[r].feedbackRecords}
    /\ \E i \in Ids : feedback[i].flippedBy # 0

\* C28 (as claimed): a workflow run that had a step fail and retried, and
\* then completed, has inserted exactly one feedback record per item it was
\* given and exactly one source summary.
C28_RetriedRunWritesOnce ==
    \A r \in RunIds :
        (/\ runs[r].kind = "workflow"
         /\ runs[r].faulted
         /\ Succeeded(r)) =>
            /\ Cardinality(InsertedBy(r)) = Len(runs[r].feedbackItems)
            /\ Cardinality(SummariesOf(r)) = 1

\* a run has failed for good: the runner had no retry left for its step
RunFailed == \E r \in {Last} \union Slots : runs[r].status = "errored"

\* a run waits at its store step for room in the bounded feedback table
StoreBlocked ==
    \E r \in Slots :
        /\ IsWf(r, "store-feedback")
        /\ runs[r].feedbackItems # <<>>
        /\ Len(feedback) >= MaxRecords

Pending(i) == i \in Ids /\ ~feedback[i].processed
Flagged(i) == i \in Ids /\ feedback[i].processed

\* C29 (as claimed): when the steps of every run keep being executed and no
\* run is ever given up by the runner, every feedback record a workflow run
\* has inserted is eventually flagged processed.
C29_InsertedEventuallyProcessed ==
    ([]~RunFailed) =>
        \A i \in 1..MaxRecords : Pending(i) ~> (Flagged(i) \/ StoreBlocked)

\* ------------------------------------------------ equivalence claims
\* the row a side appended to the table, without the run that wrote it
Appended(tbl) ==
    IF Len(tbl) = Len(aggregated_summaries) THEN <<>>
    ELSE <<[summary |-> tbl[Len(tbl)].summary,
            date_range_start |-> tbl[Len(tbl)].date_range_start,
            date_range_end |-> tbl[Len(tbl)].date_range_end,
            source_count |-> tbl[Len(tbl)].source_count,
            total_feedback_count |-> tbl[Len(tbl)].total_feedback_count]>>

\* C31: over the same tables, clock reading and days, and with the same
\* answer of env.AI.run that both unwrap without an error, aggregateSummaries
\* and AggregationWorkflow.run either both insert no row or both insert one
\* row with the same summary, date_range_start, date_range_end, source_count
\* and total_feedback_count.
C31_AggregationsEquivalent ==
    (call.fn = "aggregate" /\ call.response.type # "null") =>
        /\ Len(call.service) \in {Len(aggregated_summaries),
                                  Len(aggregated_summaries) + 1}
        /\ Appended(call.service) = Appended(call.workflow)

\* both inserted a row over two summaries of one source, with days not given
C31_Witness ==
    /\ call.fn = "aggregate"
    /\ call.response.type # "null"
    /\ ~call.days.given
    /\ Appended(call.workflow) # <<>>
    /\ Appended(call.service)[1].source_count = 1
    /\ Appended(call.service)[1].total_feedback_count >= 2
    /\ Len(source_summaries) = 2

\* ------------------------------------------------ summarizer claims
\* a run stands right before its call of the text generation
AtSummarize(r) ==
    \/ IsWf(r, "generate-summary")
    \/ IsBatch(r, "store-summary")
    \/ IsSum(r, "store-summary")

\* C32: the text generation is never called for an empty input.  A feedback
\* run that stands before its text-generation call holds at least one
\* record, an aggregation run that stands before it or has made it holds at
\* least one source summary, no stored summary is a fixed text for empty
\* input, and a summarizer called on its own returns its fixed text exactly
\* for an empty input, whatever the text generation would have answered.
C32_NeverSummarizesNothing ==
    /\ \A r \in Slots : AtSummarize(r) => runs[r].feedbackRecords # {}
    /\ (IsAgg("generate-aggregated-summary") \/ agg.aiCalled)
          => agg.summaries # {}
    /\ \A k \in SummaryIds : source_summaries[k].summary # NoFeedbackText
    /\ \A k \in 1..Len(aggregated_summaries) :
          aggregated_summaries[k].summary # NoSummariesText
    /\ Called("generateSummary")
          => (call.input = {} <=> call.result = NoFeedbackText)
    /\ Called("generateAggregatedSummary")
          => (call.input = {} <=> call.result = NoSummariesText)

\* a workflow run whose reload found every stored record flagged already has
\* returned without a summary
C32_Witness ==
    \E r \in RunIds :
        /\ runs[r].kind = "workflow"
        /\ runs[r].message = "No unprocessed feedback found"
        /\ Len(runs[r].feedbackIds) = Len(feedback)
        /\ \A i \in Ids : feedback[i].processed
        /\ source_summaries = <<>>

====
